---- MODULE Spec2Model ----
(***************************************************************************)
(* State-machine model of the three resource counters of the repository:  *)
(*   src/aws-resource-counter.py          (prog = "aws")                   *)
(*   src/azure/azure-resource-counter.py  (prog = "azure")                 *)
(*   src/gcp/gcp-resource-counter.py      (prog = "gcp")                   *)
(* Each behaviour follows one of the three programs through consecutive    *)
(* runs against the same report files and the same log.  The cloud         *)
(* provider is the environment: its inventory is the fixed functions       *)
(* AwsTrueCount / AzureTrueCount / Gcp*, and every provider call may fail  *)
(* (a fault), which is drawn with \E in the action that makes the call.    *)
(***************************************************************************)
EXTENDS Integers, Sequences, FiniteSets, TLC

\* ------------------------------------------------------------------ bounds
MaxRuns   == 2   \* consecutive runs of the program in one behaviour
MaxFaults == 1   \* provider-call failures injected in one behaviour
NumScopes == 2   \* member accounts / subscriptions / projects
MaxRepos  == 1   \* Artifact Registry repositories a project may hold
MaxUnits  == 32  \* work items handed to one pool (the pool specification)
MaxCpus   == 2   \* processors of the machine (the pool specification)

\* ------------------------------------------------------------- generic defs
\* The sum of f[x] over the x in S.
RECURSIVE SumSet(_, _)
SumSet(S, f) ==
    IF S = {} THEN 0
    ELSE LET x == CHOOSE y \in S : TRUE IN f[x] + SumSet(S \ {x}, f)

Perms(S) ==
    {s \in [1..Cardinality(S) -> S] :
        \A i, j \in 1..Cardinality(S) : s[i] = s[j] => i = j}

Range(s) == {s[i] : i \in 1..Len(s)}

\* Outcome of one provider call (or of the provider calls of one probe): the
\* true answer, or an exception.  "HttpError" is googleapiclient's HttpError;
\* "Exception" is any other exception class.
ErrClasses == {"HttpError", "Exception"}
Ok(v)      == [err |-> "none", val |-> v]
Failed(c)  == [err |-> c, val |-> 0]

\* --------------------------------------------------------------- the report
\* A report file: absent, or a sequence of CSV rows.  A row is the header or
\* a data row (scope id, then the per-kind counts in column order).
NoFile      == [exists |-> FALSE, rows |-> <<>>]
HeaderRow   == [hdr |-> TRUE, id |-> 0, counts |-> <<>>]
DataRow(id, counts) == [hdr |-> FALSE, id |-> id, counts |-> counts]

AwsCsv        == "resource_counts.csv"
AzureCsv      == "azure_resource_counts.csv"
GcpOrgCsv     == "organization_resource_counts.csv"
GcpProjectCsv == "project_resource_counts.csv"
CsvFiles      == {AwsCsv, AzureCsv, GcpOrgCsv, GcpProjectCsv}

\* open(path, 'a') ... write rows ... close
OpenAppend(f, rows) == [exists |-> TRUE, rows |-> f.rows \o rows]
\* open(path, 'w') ... write rows ... close
OpenWrite(f, rows)  == [exists |-> TRUE, rows |-> rows]

HeaderCount(f) == Cardinality({i \in 1..Len(f.rows) : f.rows[i].hdr})
DataRows(f)    == SelectSeq(f.rows, LAMBDA r : ~r.hdr)

LogEntry(what, scope, kind) == [what |-> what, scope |-> scope, kind |-> kind]

\* A behaviour is one run with up to MaxFaults failed provider calls, or up
\* to MaxRuns consecutive runs with up to MaxFaults - 1 of them.  (A kill of
\* the process is not counted: it may end any run.)
Budgets == {[runs |-> 1, faults |-> MaxFaults],
            [runs |-> MaxRuns, faults |-> MaxFaults - 1]}

VARIABLES
    prog,        \* which of the three programs this behaviour runs
    mode,        \* the run's mode: "org" / "account", "all" / "single" / ...
    pc,          \* control position of the run
    runs,        \* number of runs started so far
    files,       \* durable contents of the report files
    log,         \* the ERROR entries of the log file, in order
    faults,      \* number of provider-call failures injected so far
    budget,      \* what the behaviour explores: how many runs and failures
    registry,    \* provider: the number of Artifact Registry repositories of
                 \* each GCP project
    \* history of the current run (not program state)
    probed,      \* the probe units run for the scope being aggregated
    startRows,   \* data rows of the run's report that are not this run's
    startHdr,    \* header rows of the run's report when the run started
    startExists, \* whether the run's report existed when the run started
    logAtStart,  \* Len(log) when the run started
    aggregated,  \* the scopes whose aggregation has finished in this run,
                 \* in the order they finished
    upset,       \* a provider call that is not a probe's failed in this run
    \* aws-resource-counter.py: locals of count_resources
    member_account_ids, acct_i, account_id, active_regions, futures,
    totals, results,
    \* azure-resource-counter.py: locals of main and process_subscription
    subscriptions, sub_i, subscription_id, csv_exists, csv_open, buffer,
    threads, result_dict, total_counts,
    \* gcp-resource-counter.py: locals of run_for_organization, run_for_project
    all_project_ids, walk, projects_to_process, gfutures, project_results,
    project_id, project_counts,
    visits,      \* history: the calls of list_projects_recursive made for each
                 \* folder by the walk in progress
    \* the executor of a fan-out, by numbers (the pool specification)
    max_workers, \* the size of the pool (0: no pool)
    work,        \* work items submitted
    started,     \* work items a worker has taken, in submission order
    finished     \* work items that have returned

awsVars == <<member_account_ids, acct_i, account_id, active_regions, futures,
             totals, results>>
azVars == <<subscriptions, sub_i, subscription_id, csv_exists, csv_open, buffer,
            threads, result_dict, total_counts>>
gcpVars == <<all_project_ids, walk, projects_to_process, gfutures, project_results,
             project_id, project_counts, visits>>
histVars == <<probed, startRows, startHdr, startExists, logAtStart, aggregated, upset>>
poolVars == <<max_workers, work, started, finished>>
runVars == <<prog, budget, registry, mode, pc, runs, files, log, faults, histVars,
             awsVars, azVars, gcpVars>>
vars == <<runVars, poolVars>>

\* ===================================================== aws-resource-counter
AwsKinds == <<"running_ec2_instances", "lambda_functions", "ecs_fargate_tasks",
              "eks_instances", "ecr_repositories", "ecr_images">>
AwsKindSet == Range(AwsKinds)
AwsKindIdx(k) == CHOOSE i \in 1..Len(AwsKinds) : AwsKinds[i] = k

\* The provider's inventory.  Account 1 has regions 1 and 2, account 2 has no
\* region, every further account has region 1 alone; region 1 runs 3 EC2
\* instances and region 2 none, and every region holds one Lambda function.
AwsRegionsOf(a) == IF a = 1 THEN {1, 2} ELSE IF a = 2 THEN {} ELSE {1}
AwsMaxRegions == Cardinality(AwsRegionsOf(1))
AwsTrueCount(a, r, k) ==
    IF k = "running_ec2_instances" THEN (IF r = 1 THEN 3 ELSE 0)
    ELSE IF k = "lambda_functions" THEN 1
    ELSE (a + r + AwsKindIdx(k)) % 3

ZeroAws == [k \in AwsKindSet |-> 0]

\* The six probes: the count on success, 0 on any exception (no log entry).
count_running_ec2_instances_in_region(o) == IF o.err = "none" THEN o.val ELSE 0
count_lambda_functions_in_region(o)      == IF o.err = "none" THEN o.val ELSE 0
count_ecs_fargate_tasks_in_region(o)     == IF o.err = "none" THEN o.val ELSE 0
count_eks_instances_in_region(o)         == IF o.err = "none" THEN o.val ELSE 0
count_ecr_repositories_in_region(o)      == IF o.err = "none" THEN o.val ELSE 0
count_ecr_images_in_region(o)            == IF o.err = "none" THEN o.val ELSE 0

\* o: the outcome of each kind's provider calls in the region.
count_resources_in_region(o) ==
    [k \in AwsKindSet |->
        CASE k = "running_ec2_instances" -> count_running_ec2_instances_in_region(o[k])
          [] k = "lambda_functions"      -> count_lambda_functions_in_region(o[k])
          [] k = "ecs_fargate_tasks"     -> count_ecs_fargate_tasks_in_region(o[k])
          [] k = "eks_instances"         -> count_eks_instances_in_region(o[k])
          [] k = "ecr_repositories"      -> count_ecr_repositories_in_region(o[k])
          [] k = "ecr_images"            -> count_ecr_images_in_region(o[k])]

\* A faulty variant of AwsAggregate: `=` in place of `+=`.
AwsAggregateLastWins(acc, resource_counts) ==
    IF resource_counts = <<>> THEN acc ELSE resource_counts[Len(resource_counts)]

\* total_* = 0; for counts in resource_counts: total_* += counts[*]
RECURSIVE AwsAggregate(_, _)
AwsAggregate(acc, resource_counts) ==
    IF resource_counts = <<>> THEN acc
    ELSE AwsAggregate([k \in AwsKindSet |-> acc[k] + Head(resource_counts)[k]],
                      Tail(resource_counts))

AwsRow(id, t) == DataRow(id, [i \in 1..Len(AwsKinds) |-> t[AwsKinds[i]]])

\* The result slots of executor.map, in dispatch order.
QueuedFuture == [st |-> "queued", counts |-> ZeroAws]

AwsRunning == {"list_accounts", "assume_role", "get_active_regions", "fanout",
               "write", "wrote", "get_caller_identity"}

\* The process has ended: its memory is gone.
AwsResetLocals ==
    /\ member_account_ids' = <<>>
    /\ acct_i' = 0
    /\ account_id' = 0
    /\ active_regions' = <<>>
    /\ futures' = <<>>
    /\ totals' = ZeroAws
    /\ results' = <<>>

Ended == pc \in {"idle", "done", "exited", "aborted", "killed"}

\* The report file a run of program p in mode m writes.
RunFileOf(p, m) ==
    CASE p = "aws"   -> AwsCsv
      [] p = "azure" -> AzureCsv
      [] p = "gcp"   -> IF m = "org" THEN GcpOrgCsv ELSE GcpProjectCsv
RunFile == RunFileOf(prog, mode)

StartHistory(m) ==
    /\ probed' = {}
    /\ startRows' = Len(DataRows(files[RunFileOf(prog, m)]))
    /\ startHdr' = HeaderCount(files[RunFileOf(prog, m)])
    /\ startExists' = files[RunFileOf(prog, m)].exists
    /\ aggregated' = <<>>
    /\ logAtStart' = Len(log)
    /\ upset' = FALSE

\* __main__: input_type is "org" or "account"; count_resources begins.
AwsStart(m) ==
    /\ prog = "aws" /\ Ended /\ runs < budget.runs
    /\ runs' = runs + 1
    /\ mode' = m
    /\ pc' = IF m = "org" THEN "list_accounts" ELSE "get_caller_identity"
    /\ AwsResetLocals
    /\ StartHistory(m)
    /\ UNCHANGED <<prog, budget, registry, files, log, faults>>
    /\ UNCHANGED <<azVars, gcpVars, poolVars>>

\* The run ends at position p (done, exited, aborted).
AwsEnd(p) ==
    /\ pc' = p
    /\ probed' = {}
    /\ AwsResetLocals

\* A faulty variant of AwsAdvance: the member-account loop is left (`break`
\* in place of `continue`).
AwsAdvanceStop(i, ids) == AwsEnd("done")

\* The member-account loop moves to its next account (the locals that are
\* dead until they are assigned again are cleared; results is kept), or the
\* run is done.
AwsAdvance(i, ids) ==
    IF i < Len(ids)
    THEN /\ acct_i' = i + 1
         /\ account_id' = ids[i + 1]
         /\ member_account_ids' = ids
         /\ pc' = "assume_role"
         /\ probed' = {}
         /\ active_regions' = <<>>
         /\ futures' = <<>>
         /\ totals' = ZeroAws
         /\ results' = results
    ELSE AwsEnd("done")

\* paginator.paginate() of list_accounts: not inside a try.
AwsListAccounts ==
    /\ prog = "aws" /\ pc = "list_accounts"
    /\ \/ /\ AwsAdvance(0, [i \in 1..NumScopes |-> i])
          /\ UNCHANGED <<faults, upset>>
       \/ /\ faults < budget.faults
          /\ faults' = faults + 1
          /\ upset' = TRUE
          /\ AwsEnd("aborted")
    /\ UNCHANGED <<prog, budget, registry, mode, runs, files, log, startRows, startHdr, startExists, logAtStart, aggregated>>
    /\ UNCHANGED <<azVars, gcpVars, poolVars>>

\* assume_role_and_get_session, and the `if session_error: ... continue`.
AwsAssumeRole ==
    /\ prog = "aws" /\ pc = "assume_role"
    /\ \/ /\ pc' = "get_active_regions"
          /\ UNCHANGED <<log, faults, upset, probed, awsVars>>
       \/ /\ faults < budget.faults
          /\ faults' = faults + 1
          /\ upset' = TRUE
          /\ log' = Append(log, LogEntry("session", account_id, ""))
          /\ AwsAdvance(acct_i, member_account_ids)
    /\ UNCHANGED <<prog, budget, registry, mode, runs, files, startRows, startHdr, startExists, logAtStart, aggregated>>
    /\ UNCHANGED <<azVars, gcpVars, poolVars>>

\* sts get_caller_identity of the account branch: logs and exits on failure.
AwsGetCallerIdentity ==
    /\ prog = "aws" /\ pc = "get_caller_identity"
    /\ \/ /\ account_id' = 1
          /\ pc' = "get_active_regions"
          /\ UNCHANGED <<log, faults, upset, probed, member_account_ids, acct_i,
                         active_regions, futures, totals, results>>
       \/ /\ faults < budget.faults
          /\ faults' = faults + 1
          /\ upset' = TRUE
          /\ log' = Append(log, LogEntry("account_id", 0, ""))
          /\ AwsEnd("exited")
    /\ UNCHANGED <<prog, budget, registry, mode, runs, files, startRows, startHdr, startExists, logAtStart, aggregated>>
    /\ UNCHANGED <<azVars, gcpVars, poolVars>>

\* get_active_regions: every region name describe_regions returns, in the
\* order it returns them; then executor.map submits one task per region.
\* On failure the member account is skipped (org) or the run exits (account).
AwsGetActiveRegions ==
    /\ prog = "aws" /\ pc = "get_active_regions"
    /\ \/ /\ \E regions \in Perms(AwsRegionsOf(account_id)) :
                /\ active_regions' = regions
                /\ futures' = [i \in 1..Len(regions) |-> QueuedFuture]
          /\ pc' = "fanout"
          /\ UNCHANGED <<log, faults, upset, probed, member_account_ids, acct_i,
                         account_id, totals, results>>
       \/ /\ faults < budget.faults
          /\ faults' = faults + 1
          /\ upset' = TRUE
          /\ log' = Append(log, LogEntry("regions", account_id, ""))
          /\ IF mode = "org"
             THEN AwsAdvance(acct_i, member_account_ids)
             ELSE AwsEnd("exited")
    /\ UNCHANGED <<prog, budget, registry, mode, runs, files, startRows, startHdr, startExists, logAtStart, aggregated>>
    /\ UNCHANGED <<azVars, gcpVars, poolVars>>

\* The outcomes of the provider calls of one unit of work: the true counts,
\* but for the kinds in F, whose calls raise an exception of class c.
AwsOutcomes(a, r, F, c) ==
    [k \in AwsKindSet |-> IF k \in F THEN Failed(c) ELSE Ok(AwsTrueCount(a, r, k))]

\* A pool thread runs count_resources_in_region for region active_regions[i]
\* (the pool has 30 workers).
AwsTask(i) ==
    /\ prog = "aws" /\ pc = "fanout"
    /\ i \in 1..Len(futures) /\ futures[i].st = "queued"
    /\ \E F \in SUBSET AwsKindSet :
          /\ Cardinality(F) <= budget.faults - faults
          /\ LET r == active_regions[i]
                 o == AwsOutcomes(account_id, r, F, "Exception")
                 counts == count_resources_in_region(o)
             IN /\ futures' = [futures EXCEPT ![i] = [st |-> "done", counts |-> counts]]
                /\ probed' = probed \cup
                      {[scope |-> account_id, dim |-> r, kind |-> k,
                        failed |-> k \in F, raised |-> FALSE, val |-> counts[k],
                        truth |-> AwsTrueCount(account_id, r, k)] : k \in AwsKindSet}
          /\ faults' = faults + Cardinality(F)
    /\ UNCHANGED <<prog, budget, registry, mode, pc, runs, files, log, startRows, startHdr, startExists, logAtStart, aggregated,
                   upset, member_account_ids, acct_i, account_id, active_regions,
                   totals, results>>
    /\ UNCHANGED <<azVars, gcpVars, poolVars>>

\* A faulty variant of AwsJoined: the results are read without waiting.
AwsJoinedAtOnce(fs) == TRUE

\* list(executor.map(...)) has every result, and the `with
\* ThreadPoolExecutor` block has ended: every task has terminated.
AwsJoined(fs) == \A i \in 1..Len(fs) : fs[i].st = "done"

\* The pool has joined; the totals are summed and (org) the row is appended
\* to results.
AwsReduce ==
    /\ prog = "aws" /\ pc = "fanout"
    /\ AwsJoined(futures)
    /\ LET resource_counts == [i \in 1..Len(futures) |-> futures[i].counts]
           t == AwsAggregate(ZeroAws, resource_counts)
       IN /\ totals' = t
          /\ results' = IF mode = "org"
                        THEN Append(results, AwsRow(account_id, t))
                        ELSE results
    /\ aggregated' = Append(aggregated, account_id)
    /\ pc' = "write"
    /\ UNCHANGED <<prog, budget, registry, mode, runs, files, log, faults, probed,
                   startRows, startHdr, startExists, logAtStart, upset,
                   member_account_ids, acct_i, account_id, active_regions, futures>>
    /\ UNCHANGED <<azVars, gcpVars, poolVars>>

\* org:     open(csv, 'a'); writerows(results)
\* account: open(csv, 'w'); header row; the account's row
AwsWriteRows(f, m, res, id, t) ==
    IF m = "org" THEN OpenAppend(f, res)
    ELSE OpenWrite(f, <<HeaderRow, AwsRow(id, t)>>)

\* A faulty variant of AwsClear: the rows written stay in the list.
AwsClearNothing(res) == res

\* results.clear()
AwsClear(res) == <<>>

\* The `with open(csv_file_name, ...)` block, and (org) results.clear().
AwsWrite ==
    /\ prog = "aws" /\ pc = "write"
    /\ files' = [files EXCEPT ![AwsCsv] =
                    AwsWriteRows(files[AwsCsv], mode, results, account_id, totals)]
    /\ startRows' = IF mode = "org" THEN startRows ELSE 0
    /\ results' = IF mode = "org" THEN AwsClear(results) ELSE results
    /\ pc' = "wrote"
    /\ UNCHANGED <<prog, budget, registry, mode, runs, log, faults, probed, startHdr, startExists, logAtStart, aggregated, upset,
                   member_account_ids, acct_i, account_id, active_regions, futures,
                   totals>>
    /\ UNCHANGED <<azVars, gcpVars, poolVars>>

\* End of one iteration of the member-account loop (org), or of the run.
AwsNextAccount ==
    /\ prog = "aws" /\ pc = "wrote"
    /\ AwsAdvance(acct_i, member_account_ids)
    /\ UNCHANGED <<prog, budget, registry, mode, runs, files, log, faults, startRows, startHdr, startExists,
                   logAtStart, aggregated, upset>>
    /\ UNCHANGED <<azVars, gcpVars, poolVars>>

\* The process is killed (or the machine stops) in the middle of a run.
AwsKill ==
    /\ prog = "aws" /\ pc \in AwsRunning
    /\ AwsEnd("killed")
    /\ UNCHANGED <<prog, budget, registry, mode, runs, files, log, faults, startRows, startHdr, startExists,
                   logAtStart, aggregated, upset>>
    /\ UNCHANGED <<azVars, gcpVars, poolVars>>

AwsNext ==
    \/ \E m \in {"org", "account"} : AwsStart(m)
    \/ AwsListAccounts
    \/ AwsAssumeRole
    \/ AwsGetCallerIdentity
    \/ AwsGetActiveRegions
    \/ \E i \in 1..AwsMaxRegions : AwsTask(i)
    \/ AwsReduce
    \/ AwsWrite
    \/ AwsNextAccount
    \/ AwsKill

\* =================================================== azure-resource-counter
AzureKinds == <<"Virtual Machines", "Web Apps", "Container Instances",
                "AKS Clusters", "ACR Registries", "ACR Images", "Azure Functions">>
AzureKindSet == Range(AzureKinds)
AzureKindIdx(k) == CHOOSE i \in 1..Len(AzureKinds) : AzureKinds[i] = k

\* The provider's inventory: subscription 1 has resource groups 1 and 2,
\* subscription 2 has none, every further subscription has resource group 1.
AzureRgsOf(s) == IF s = 1 THEN {1, 2} ELSE IF s = 2 THEN {} ELSE {1}
AzureMaxRgs == Cardinality(AzureRgsOf(1))
AzureTrueCount(s, g, k) == (s + 2 * g + AzureKindIdx(k)) % 3

ZeroAzure == [k \in AzureKindSet |-> 0]

\* The seven probes: the count on success; on an exception of the listing 0,
\* and an error entry naming the resource group and the kind.
count_virtual_machines(o)    == IF o.err = "none" THEN o.val ELSE 0
count_web_apps(o)            == IF o.err = "none" THEN o.val ELSE 0
count_container_instances(o) == IF o.err = "none" THEN o.val ELSE 0
count_aks_clusters(o)        == IF o.err = "none" THEN o.val ELSE 0
count_acr_registries(o)      == IF o.err = "none" THEN o.val ELSE 0
count_acr_images(o)          == IF o.err = "none" THEN o.val ELSE 0
count_azure_functions(o)     == IF o.err = "none" THEN o.val ELSE 0

\* The error entries the probes of resource group g write, in probe order.
AzureProbeLog(g, o) ==
    LET bad == SelectSeq(AzureKinds, LAMBDA k : o[k].err # "none")
    IN [i \in 1..Len(bad) |-> LogEntry("probe", g, bad[i])]

\* The counts dictionary count_resources_in_resource_group stores.
count_resources_in_resource_group(o) ==
    [k \in AzureKindSet |->
        CASE k = "Virtual Machines"    -> count_virtual_machines(o[k])
          [] k = "Web Apps"            -> count_web_apps(o[k])
          [] k = "Container Instances" -> count_container_instances(o[k])
          [] k = "AKS Clusters"        -> count_aks_clusters(o[k])
          [] k = "ACR Registries"      -> count_acr_registries(o[k])
          [] k = "ACR Images"          -> count_acr_images(o[k])
          [] k = "Azure Functions"     -> count_azure_functions(o[k])]

\* A faulty variant of AzureSumCounts: the loop stops after the first
\* dictionary.
AzureSumCountsFirstOnly(acc, values) ==
    IF values = <<>> THEN acc
    ELSE [k \in AzureKindSet |-> acc[k] + Head(values).counts[k]]

\* for counts in result_dict.values(): total_counts[resource_type] += count
\* (values: the stored dictionaries, in insertion order).
RECURSIVE AzureSumCounts(_, _)
AzureSumCounts(acc, values) ==
    IF values = <<>> THEN acc
    ELSE AzureSumCounts([k \in AzureKindSet |-> acc[k] + Head(values).counts[k]],
                        Tail(values))

AzureRow(id, t) == DataRow(id, [i \in 1..Len(AzureKinds) |-> t[AzureKinds[i]]])

\* A faulty variant of AzureHeaderRows: the header whatever csv_exists is.
AzureHeaderRowsAlways(exists) == <<HeaderRow>>

\* if not csv_exists: csv_writer.writerow(<header>)
AzureHeaderRows(exists) == IF ~exists THEN <<HeaderRow>> ELSE <<>>

AzureRunning == {"az_list_subscriptions", "az_open_csv", "az_select",
                 "az_list_rgs", "az_threads", "az_wrote", "az_close"}

AzureResetLocals ==
    /\ subscriptions' = <<>>
    /\ sub_i' = 0
    /\ subscription_id' = 0
    /\ csv_exists' = FALSE
    /\ csv_open' = FALSE
    /\ buffer' = <<>>
    /\ threads' = <<>>
    /\ result_dict' = <<>>
    /\ total_counts' = ZeroAzure

\* main begins.  m is what the user will answer to the prompts: "all"
\* (option 1), "single" (option 2 and a known id), "notfound" (option 2 and
\* an unknown id), "invalid" (any other option).
AzureStart(m) ==
    /\ prog = "azure" /\ Ended /\ runs < budget.runs
    /\ runs' = runs + 1
    /\ mode' = m
    /\ pc' = "az_list_subscriptions"
    /\ AzureResetLocals
    /\ StartHistory(m)
    /\ UNCHANGED <<prog, budget, registry, files, log, faults>>
    /\ UNCHANGED <<awsVars, gcpVars, poolVars>>

\* The process ends by an uncaught exception: leaving the `with open(...)`
\* block closes the file, which writes out what csv_writer has buffered.
AzureCloseFile ==
    files' = IF csv_open
             THEN [files EXCEPT ![AzureCsv] = OpenAppend(files[AzureCsv], buffer)]
             ELSE files

AzureEnd(p) ==
    /\ pc' = p
    /\ probed' = {}
    /\ AzureResetLocals

\* list_subscriptions(credential): the first provider call, not in a try.
AzureListSubscriptions ==
    /\ prog = "azure" /\ pc = "az_list_subscriptions"
    /\ \/ /\ subscriptions' = [i \in 1..NumScopes |-> i]
          /\ pc' = "az_open_csv"
          /\ UNCHANGED <<faults, upset, probed, sub_i, subscription_id, csv_exists,
                         csv_open, buffer, threads, result_dict, total_counts>>
       \/ /\ faults < budget.faults
          /\ faults' = faults + 1
          /\ upset' = TRUE
          /\ AzureEnd("aborted")
    /\ UNCHANGED <<prog, budget, registry, mode, runs, files, log, startRows, startHdr, startExists, logAtStart, aggregated>>
    /\ UNCHANGED <<awsVars, gcpVars, poolVars>>

\* csv_exists = os.path.exists(...); open(..., mode='a') creates the file;
\* the header row, if written, stays in the writer's buffer.
AzureOpenCsv ==
    /\ prog = "azure" /\ pc = "az_open_csv"
    /\ csv_exists' = files[AzureCsv].exists
    /\ csv_open' = TRUE
    /\ files' = [files EXCEPT ![AzureCsv] = OpenAppend(files[AzureCsv], <<>>)]
    /\ buffer' = AzureHeaderRows(files[AzureCsv].exists)
    /\ pc' = "az_select"
    /\ UNCHANGED <<prog, budget, registry, mode, runs, log, faults, histVars, subscriptions, sub_i,
                   subscription_id, threads, result_dict, total_counts>>
    /\ UNCHANGED <<awsVars, gcpVars, poolVars>>

\* The option prompt: the subscription loop begins, or the single
\* subscription is looked up, or a message is printed.
AzureSelect ==
    /\ prog = "azure" /\ pc = "az_select"
    /\ CASE mode = "all" ->
              IF Len(subscriptions) > 0
              THEN /\ sub_i' = 1
                   /\ subscription_id' = subscriptions[1]
                   /\ pc' = "az_list_rgs"
                   /\ upset' = upset
              ELSE /\ pc' = "az_close"
                   /\ UNCHANGED <<sub_i, subscription_id, upset>>
         [] mode = "single" ->
              \E i \in 1..Len(subscriptions) :
                 /\ sub_i' = i
                 /\ subscription_id' = subscriptions[i]
                 /\ pc' = "az_list_rgs"
                 /\ upset' = upset
         [] OTHER ->
              /\ pc' = "az_close"
              /\ upset' = TRUE
              /\ UNCHANGED <<sub_i, subscription_id>>
    /\ UNCHANGED <<prog, budget, registry, mode, runs, files, log, faults, probed, startRows, startHdr, startExists,
                   logAtStart, aggregated, subscriptions, csv_exists, csv_open, buffer, threads,
                   result_dict, total_counts>>
    /\ UNCHANGED <<awsVars, gcpVars, poolVars>>

\* process_subscription: resource_groups.list() is iterated and one thread
\* is started per resource group.  The listing is not in a try.
AzureListResourceGroups ==
    /\ prog = "azure" /\ pc = "az_list_rgs"
    /\ \/ /\ threads' = [g \in 1..Cardinality(AzureRgsOf(subscription_id)) |-> "started"]
          /\ result_dict' = <<>>
          /\ total_counts' = ZeroAzure
          /\ probed' = {}
          /\ pc' = "az_threads"
          /\ UNCHANGED <<files, faults, upset, subscriptions, sub_i, subscription_id,
                         csv_exists, csv_open, buffer>>
       \/ /\ faults < budget.faults
          /\ faults' = faults + 1
          /\ upset' = TRUE
          /\ AzureCloseFile
          /\ AzureEnd("aborted")
    /\ UNCHANGED <<prog, budget, registry, mode, runs, log, startRows, startHdr, startExists, logAtStart, aggregated>>
    /\ UNCHANGED <<awsVars, gcpVars, poolVars>>

AzureOutcomes(s, g, F, c) ==
    [k \in AzureKindSet |-> IF k \in F THEN Failed(c) ELSE Ok(AzureTrueCount(s, g, k))]

\* A faulty variant of AzureResultKey: every thread stores under one key.
AzureResultKeyShared(g) == 0

\* The key a thread stores its dictionary under: the name of its resource
\* group.
AzureResultKey(g) == g

\* d[k] = v on a dict, kept in insertion order: the entry of key k is
\* replaced, or a new entry is added.
DictSet(d, k, v) ==
    IF \E i \in 1..Len(d) : d[i].rg = k
    THEN [i \in 1..Len(d) |-> IF d[i].rg = k THEN [rg |-> k, counts |-> v] ELSE d[i]]
    ELSE Append(d, [rg |-> k, counts |-> v])

\* The thread of resource group g runs count_resources_in_resource_group and
\* stores its dictionary: result_dict[resource_group] = counts.
AzureThread(g) ==
    /\ prog = "azure" /\ pc = "az_threads"
    /\ g \in 1..Len(threads) /\ threads[g] = "started"
    /\ \E F \in SUBSET AzureKindSet :
          /\ Cardinality(F) <= budget.faults - faults
          /\ LET o == AzureOutcomes(subscription_id, g, F, "Exception")
                 counts == count_resources_in_resource_group(o)
             IN /\ result_dict' = DictSet(result_dict, AzureResultKey(g), counts)
                /\ log' = log \o AzureProbeLog(g, o)
                /\ probed' = probed \cup
                      {[scope |-> subscription_id, dim |-> g, kind |-> k,
                        failed |-> k \in F, raised |-> FALSE, val |-> counts[k],
                        truth |-> AzureTrueCount(subscription_id, g, k)] :
                          k \in AzureKindSet}
          /\ faults' = faults + Cardinality(F)
    /\ threads' = [threads EXCEPT ![g] = "done"]
    /\ UNCHANGED <<prog, budget, registry, mode, pc, runs, files, startRows, startHdr, startExists, logAtStart, aggregated,
                   upset, subscriptions, sub_i, subscription_id, csv_exists,
                   csv_open, buffer, total_counts>>
    /\ UNCHANGED <<awsVars, gcpVars, poolVars>>

\* for thread in threads: thread.join() has returned for every thread.
AzureJoined(ts) == \A g \in 1..Len(ts) : ts[g] = "done"

\* Every thread is joined; the totals are summed and the row is handed to
\* csv_writer, which buffers it.
AzureSum ==
    /\ prog = "azure" /\ pc = "az_threads"
    /\ AzureJoined(threads)
    /\ LET t == AzureSumCounts(ZeroAzure, result_dict)
       IN /\ total_counts' = t
          /\ buffer' = Append(buffer, AzureRow(subscription_id, t))
    /\ aggregated' = Append(aggregated, subscription_id)
    /\ pc' = "az_wrote"
    /\ UNCHANGED <<prog, budget, registry, mode, runs, files, log, faults, probed,
                   startRows, startHdr, startExists, logAtStart, upset, subscriptions,
                   sub_i, subscription_id, csv_exists, csv_open, threads, result_dict>>
    /\ UNCHANGED <<awsVars, gcpVars, poolVars>>

\* process_subscription returns: the next subscription (option 1), or the
\* end of the `with` block.
AzureNextSubscription ==
    /\ prog = "azure" /\ pc = "az_wrote"
    /\ IF mode = "all" /\ sub_i < Len(subscriptions)
       THEN /\ sub_i' = sub_i + 1
            /\ subscription_id' = subscriptions[sub_i + 1]
            /\ pc' = "az_list_rgs"
       ELSE /\ pc' = "az_close"
            /\ UNCHANGED <<sub_i, subscription_id>>
    /\ probed' = {}
    /\ threads' = <<>>
    /\ result_dict' = <<>>
    /\ total_counts' = ZeroAzure
    /\ UNCHANGED <<prog, budget, registry, mode, runs, files, log, faults, startRows, startHdr, startExists,
                   logAtStart, aggregated, upset, subscriptions, csv_exists, csv_open, buffer>>
    /\ UNCHANGED <<awsVars, gcpVars, poolVars>>

\* The `with open(...)` block ends: the file is closed and main returns.
AzureClose ==
    /\ prog = "azure" /\ pc = "az_close"
    /\ AzureCloseFile
    /\ AzureEnd("done")
    /\ UNCHANGED <<prog, budget, registry, mode, runs, log, faults, startRows, startHdr, startExists, logAtStart, aggregated,
                   upset>>
    /\ UNCHANGED <<awsVars, gcpVars, poolVars>>

\* The process is killed (or the machine stops): what csv_writer has
\* buffered is lost.
AzureKill ==
    /\ prog = "azure" /\ pc \in AzureRunning
    /\ AzureEnd("killed")
    /\ UNCHANGED <<prog, budget, registry, mode, runs, files, log, faults, startRows, startHdr, startExists,
                   logAtStart, aggregated, upset>>
    /\ UNCHANGED <<awsVars, gcpVars, poolVars>>

AzureNext ==
    \/ \E m \in {"all", "single", "notfound", "invalid"} : AzureStart(m)
    \/ AzureListSubscriptions
    \/ AzureOpenCsv
    \/ AzureSelect
    \/ AzureListResourceGroups
    \/ \E g \in 1..AzureMaxRgs : AzureThread(g)
    \/ AzureSum
    \/ AzureNextSubscription
    \/ AzureClose
    \/ AzureKill

\* ===================================================== gcp-resource-counter
GcpKinds == <<"Running Compute Instances", "Cloud Functions", "GKE Clusters",
              "Artifact Registry Repositories", "Artifact Registry Images">>
GcpKindSet == Range(GcpKinds)
GcpKindIdx(k) == CHOOSE i \in 1..Len(GcpKinds) : GcpKinds[i] = k

\* A hierarchy that is not one: folder 1 is listed below folder 3, which is
\* below folder 1.
GcpChildFoldersCyclic(parent) ==
    CASE parent = 0 -> <<2, 1>>
      [] parent = 1 -> <<3>>
      [] parent = 3 -> <<1>>
      [] OTHER      -> <<>>

\* The provider's hierarchy.  Parent 0 is the organization; its folders are 2
\* and 1, as the provider lists them; folder 3 lies in folder 1.  Project 1 is listed under the
\* organization and under folder 3; every other project under one folder.
GcpProjects == 1..NumScopes
GcpChildFolders(parent) ==
    CASE parent = 0 -> <<2, 1>>
      [] parent = 1 -> <<3>>
      [] OTHER      -> <<>>
\* The folders of the hierarchy, and the count of a walk that has visited none.
GcpFolders == 1..3
NoVisits == [f \in GcpFolders |-> 0]
GcpParentsOf(p) == IF p = 1 THEN {0, 3} ELSE {(p - 1) % 4}
RECURSIVE Ascending(_)
Ascending(S) ==
    IF S = {} THEN <<>>
    ELSE LET m == CHOOSE x \in S : \A y \in S : x <= y
         IN <<m>> \o Ascending(S \ {m})
GcpProjectsIn(parent) == Ascending({p \in GcpProjects : parent \in GcpParentsOf(p)})
GcpTrueCount(p, k)  == (p + GcpKindIdx(k)) % 3
\* Either no project holds a repository, or project 1 holds MaxRepos.
GcpRegistries == {[p \in GcpProjects |-> 0],
                  [p \in GcpProjects |-> IF p = 1 THEN MaxRepos ELSE 0]}
\* The project of the service-account key (credentials.project_id).
GcpCredentialsProject == CHOOSE p \in GcpProjects : \A q \in GcpProjects : p <= q
GcpImagesIn(p, r)   == 1 + ((p + r) % 2)

ZeroGcp == [k \in GcpKindSet |-> 0]

\* What one call into a probe gives its caller: it returns val, having
\* written the entries log, or it raises.
Returns(v, entries) == [raised |-> FALSE, exc |-> "none", val |-> v, log |-> entries]
Raises(c)           == [raised |-> TRUE, exc |-> c, val |-> 0, log |-> <<>>]

\* The probes catch HttpError alone: 0 and an error entry naming the
\* project and the kind; any other exception leaves the probe.
count_running_compute_instances(pid, o) ==
    IF o.err = "none" THEN Returns(o.val, <<>>)
    ELSE IF o.err = "HttpError"
         THEN Returns(0, <<LogEntry("probe", pid, "Running Compute Instances")>>)
         ELSE Raises(o.err)
count_cloud_functions(pid, o) ==
    IF o.err = "none" THEN Returns(o.val, <<>>)
    ELSE IF o.err = "HttpError"
         THEN Returns(0, <<LogEntry("probe", pid, "Cloud Functions")>>)
         ELSE Raises(o.err)
count_gke_clusters(pid, o) ==
    IF o.err = "none" THEN Returns(o.val, <<>>)
    ELSE IF o.err = "HttpError"
         THEN Returns(0, <<LogEntry("probe", pid, "GKE Clusters")>>)
         ELSE Raises(o.err)
\* val: the length of the list of repository names returned ([] on HttpError).
list_artifact_registry_repositories(pid, o) ==
    IF o.err = "none" THEN Returns(o.val, <<>>)
    ELSE IF o.err = "HttpError"
         THEN Returns(0, <<LogEntry("probe", pid, "Artifact Registry Repositories")>>)
         ELSE Raises(o.err)
\* nargs: the number of positional arguments of the call; the function has
\* five parameters, so any other number raises TypeError before any request.
\* The error entry names the repository, whose name contains the project.
count_artifact_registry_images(nargs, pid, o) ==
    IF nargs # 5 THEN Raises("TypeError")
    ELSE IF o.err = "none" THEN Returns(o.val, <<>>)
    ELSE IF o.err = "HttpError"
         THEN Returns(0, <<LogEntry("probe", pid, "Artifact Registry Images")>>)
         ELSE Raises(o.err)

\* Sequential composition: acc is what the function has done so far, r the
\* next call's result for kind k (dim: the repository, 0 if none).  called
\* says whether the provider was called at all.
GcpBegin == [raised |-> FALSE, exc |-> "none", vals |-> ZeroGcp, log |-> <<>>,
             calls |-> <<>>]
GcpThen(acc, k, dim, r, o, called) ==
    IF acc.raised THEN acc
    ELSE [raised |-> r.raised,
          exc    |-> r.exc,
          vals   |-> [acc.vals EXCEPT ![k] = @ + r.val],
          log    |-> acc.log \o r.log,
          calls  |-> IF called
                     THEN Append(acc.calls, [kind |-> k, dim |-> dim,
                                             failed |-> o.err # "none",
                                             raised |-> r.raised,
                                             val |-> r.val])
                     ELSE acc.calls]

\* A faulty variant of GcpImagesLoop: the body runs once whatever the list
\* of repositories holds.
GcpImagesLoopAlways(acc, nargs, pid, from, n, o) ==
    GcpThen(acc, "Artifact Registry Images", from,
            count_artifact_registry_images(nargs, pid, o.images[from]),
            o.images[from], nargs = 5)

\* for repo in artifact_registry_repositories: images_count = count_...(...)
\* over the repositories from..n.
RECURSIVE GcpImagesLoop(_, _, _, _, _, _)
GcpImagesLoop(acc, nargs, pid, from, n, o) ==
    IF from > n THEN acc
    ELSE GcpImagesLoop(
            GcpThen(acc, "Artifact Registry Images", from,
                    count_artifact_registry_images(nargs, pid, o.images[from]),
                    o.images[from], nargs = 5),
            nargs, pid, from + 1, n, o)

\* The body count_resources_for_project and run_for_project share, but for
\* the number of arguments they pass to count_artifact_registry_images.
GcpCountProject(nargs, pid, o) ==
    LET a == GcpThen(GcpBegin, "Running Compute Instances", 0,
                     count_running_compute_instances(pid, o.instances),
                     o.instances, TRUE)
        b == GcpThen(a, "Cloud Functions", 0,
                     count_cloud_functions(pid, o.functions), o.functions, TRUE)
        c == GcpThen(b, "GKE Clusters", 0,
                     count_gke_clusters(pid, o.gke), o.gke, TRUE)
        repos == list_artifact_registry_repositories(pid, o.repos)
        d == GcpThen(c, "Artifact Registry Repositories", 0, repos, o.repos, TRUE)
    IN GcpImagesLoop(d, nargs, pid, 1, repos.val, o)

\* organization mode: six arguments (the progress bar is passed too).
count_resources_for_project(pid, o) == GcpCountProject(6, pid, o)
\* single-project mode: five arguments.
run_for_project_counts(pid, o) == GcpCountProject(5, pid, o)

GcpRow(id, t) == DataRow(id, [i \in 1..Len(GcpKinds) |-> t[GcpKinds[i]]])

\* The provider's answers to the calls made for project pid: n repositories,
\* and exceptions of the classes e gives (e[k] = "none": the true answer).
GcpOutcome(truth, c) == IF c = "none" THEN Ok(truth) ELSE Failed(c)
GcpOutcomes(pid, n, e) ==
    [instances |-> GcpOutcome(GcpTrueCount(pid, "Running Compute Instances"), e.instances),
     functions |-> GcpOutcome(GcpTrueCount(pid, "Cloud Functions"), e.functions),
     gke       |-> GcpOutcome(GcpTrueCount(pid, "GKE Clusters"), e.gke),
     repos     |-> GcpOutcome(n, e.repos),
     images    |-> [r \in 1..MaxRepos |-> GcpOutcome(GcpImagesIn(pid, r), e.images[r])]]
\* The ways at most r of the calls fail: F the failing calls but the image
\* listings, G the repositories whose image listing fails.
GcpCallNames == {"instances", "functions", "gke", "repos"}
GcpErrs(F, G, cf, cg) ==
    [instances |-> IF "instances" \in F THEN cf["instances"] ELSE "none",
     functions |-> IF "functions" \in F THEN cf["functions"] ELSE "none",
     gke       |-> IF "gke" \in F THEN cf["gke"] ELSE "none",
     repos     |-> IF "repos" \in F THEN cf["repos"] ELSE "none",
     images    |-> [r \in 1..MaxRepos |-> IF r \in G THEN cg[r] ELSE "none"]]
GcpErrChoices(r) ==
    UNION {UNION {{GcpErrs(F, G, cf, cg) : cf \in [F -> ErrClasses], cg \in [G -> ErrClasses]} :
                    G \in {Y \in SUBSET (1..MaxRepos) : Cardinality(F) + Cardinality(Y) <= r}} :
              F \in {X \in SUBSET GcpCallNames : Cardinality(X) <= r}}
GcpNumErrs(e) ==
    Cardinality({k \in {"instances", "functions", "gke", "repos"} : e[k] # "none"})
    + Cardinality({r \in 1..MaxRepos : e.images[r] # "none"})
GcpHits(res) == Cardinality({i \in 1..Len(res.calls) : res.calls[i].failed})
GcpTruth(pid, n, call) ==
    IF call.kind = "Artifact Registry Repositories" THEN n
    ELSE IF call.kind = "Artifact Registry Images" THEN GcpImagesIn(pid, call.dim)
    ELSE GcpTrueCount(pid, call.kind)
GcpUnits(pid, n, res) ==
    {[scope |-> pid, dim |-> res.calls[i].dim, kind |-> res.calls[i].kind,
      failed |-> res.calls[i].failed, raised |-> res.calls[i].raised,
      val |-> res.calls[i].val,
      truth |-> GcpTruth(pid, n, res.calls[i])] : i \in 1..Len(res.calls)}

GcpRunning == {"gcp_list_org", "gcp_list_folders", "gcp_walk", "gcp_fanout",
               "gcp_project", "gcp_write_project", "gcp_wrote"}

GcpResetLocals ==
    /\ all_project_ids' = <<>>
    /\ walk' = <<>>
    /\ visits' = NoVisits
    /\ projects_to_process' = <<>>
    /\ gfutures' = <<>>
    /\ project_results' = <<>>
    /\ project_id' = 0
    /\ project_counts' = ZeroGcp

GcpEnd(p) ==
    /\ pc' = p
    /\ probed' = {}
    /\ GcpResetLocals

\* __main__: option 1 (an organization) or option 2 (the credentials' project).
GcpStart(m) ==
    /\ prog = "gcp" /\ Ended /\ runs < budget.runs
    /\ runs' = runs + 1
    /\ mode' = m
    /\ pc' = IF m = "org" THEN "gcp_list_org" ELSE "gcp_project"
    /\ GcpResetLocals
    /\ StartHistory(m)
    /\ UNCHANGED <<prog, budget, registry, files, log, faults>>
    /\ UNCHANGED <<awsVars, azVars, poolVars>>

\* A paginated projects().list of parent: page j (one project a page) fails
\* and the loop breaks with the projects of the pages before it; j = 0: no
\* page fails.
GcpPages(parent) == IF Len(GcpProjectsIn(parent)) = 0 THEN 1 ELSE Len(GcpProjectsIn(parent))
GcpListed(parent, j) ==
    IF j = 0 THEN GcpProjectsIn(parent) ELSE SubSeq(GcpProjectsIn(parent), 1, j - 1)

\* list_projects_under_organization, and the copy into all_project_ids.
GcpListOrgProjects ==
    /\ prog = "gcp" /\ pc = "gcp_list_org"
    /\ \E j \in 0..GcpPages(0) :
          /\ j > 0 => faults < budget.faults
          /\ faults' = IF j > 0 THEN faults + 1 ELSE faults
          /\ upset' = (upset \/ j > 0)
          /\ log' = IF j > 0 THEN Append(log, LogEntry("list_projects", 0, "")) ELSE log
          /\ all_project_ids' = GcpListed(0, j)
    /\ pc' = "gcp_list_folders"
    /\ UNCHANGED <<prog, budget, registry, mode, runs, files, probed, startRows, startHdr, startExists,
                   logAtStart, aggregated, walk, projects_to_process, gfutures, project_results,
                   project_id, project_counts, visits>>
    /\ UNCHANGED <<awsVars, azVars, poolVars>>

\* folders().list(parent=...).execute().get('folders', []): the response is
\* the first page of the parent's folders, and no further page is asked for.
\* The server chooses the size of a page: the first page holds n folders.
GcpFirstPageSizes(parent) ==
    IF GcpChildFolders(parent) = <<>> THEN {0} ELSE 1..Len(GcpChildFolders(parent))
GcpFirstPage(parent, n) == SubSeq(GcpChildFolders(parent), 1, n)

\* service.folders().list(parent=organization).execute(): not in a try.
GcpListOrgFolders ==
    /\ prog = "gcp" /\ pc = "gcp_list_folders"
    /\ \/ /\ \E n \in GcpFirstPageSizes(0) : walk' = GcpFirstPage(0, n)
          /\ pc' = "gcp_walk"
          /\ UNCHANGED <<faults, upset, probed, all_project_ids, projects_to_process,
                         gfutures, project_results, project_id, project_counts, visits>>
       \/ /\ faults < budget.faults
          /\ faults' = faults + 1
          /\ upset' = TRUE
          /\ GcpEnd("aborted")
    /\ UNCHANGED <<prog, budget, registry, mode, runs, files, log, startRows, startHdr, startExists,
                   logAtStart, aggregated>>
    /\ UNCHANGED <<awsVars, azVars, poolVars>>

\* One call of list_projects_recursive, for the folder at the head of walk
\* (the folders still to visit, in the order the recursion visits them): its
\* projects are listed (a failure is logged and breaks the loop), then its
\* child folders (not in a try), which are visited next.
GcpWalkFolder ==
    /\ prog = "gcp" /\ pc = "gcp_walk" /\ walk # <<>>
    /\ LET f == Head(walk) IN
       \E j \in 0..GcpPages(f), cf \in BOOLEAN, sz \in GcpFirstPageSizes(f) :
          LET n == (IF j > 0 THEN 1 ELSE 0) + (IF cf THEN 1 ELSE 0) IN
          /\ n <= budget.faults - faults
          /\ faults' = faults + n
          /\ upset' = (upset \/ n > 0)
          /\ log' = IF j > 0 THEN Append(log, LogEntry("list_projects", f, "")) ELSE log
          /\ IF cf
             THEN GcpEnd("aborted")
             ELSE /\ all_project_ids' = all_project_ids \o GcpListed(f, j)
                  /\ walk' = GcpFirstPage(f, sz) \o Tail(walk)
                  /\ visits' = [visits EXCEPT ![f] = @ + 1]
                  /\ UNCHANGED <<pc, probed, projects_to_process, gfutures,
                                 project_results, project_id, project_counts>>
    /\ UNCHANGED <<prog, budget, registry, mode, runs, files, startRows, startHdr, startExists, logAtStart, aggregated>>
    /\ UNCHANGED <<awsVars, azVars, poolVars>>

\* unique_project_ids = set(all_project_ids)
UniqueProjectIds(ids) == Range(ids)

QueuedGcpFuture == [st |-> "queued", exc |-> "none", counts |-> ZeroGcp]

\* A faulty variant of ProjectsToProcess: the collected list as it is.
ProjectsToProcessAsCollected(ids) == {ids}

\* projects_to_process = list(unique_project_ids): the ids of the set, in
\* the set's arbitrary order.
ProjectsToProcess(ids) == Perms(UniqueProjectIds(ids))

\* The walk is over: the ids are deduplicated and listed, and executor.map
\* submits one task per project.
GcpDedup ==
    /\ prog = "gcp" /\ pc = "gcp_walk" /\ walk = <<>>
    /\ \E order \in ProjectsToProcess(all_project_ids) :
          /\ projects_to_process' = order
          /\ gfutures' = [i \in 1..Len(order) |-> QueuedGcpFuture]
    /\ project_results' = <<>>
    /\ visits' = NoVisits
    /\ pc' = "gcp_fanout"
    /\ UNCHANGED <<prog, budget, registry, mode, runs, files, log, faults, histVars,
                   all_project_ids, walk, project_id, project_counts>>
    /\ UNCHANGED <<awsVars, azVars, poolVars>>

\* A pool thread runs count_resources_for_project for projects_to_process[i].
GcpTask(i) ==
    /\ prog = "gcp" /\ pc = "gcp_fanout"
    /\ i \in 1..Len(gfutures) /\ gfutures[i].st = "queued"
    /\ \E e \in GcpErrChoices(budget.faults - faults) :
          LET pid == projects_to_process[i]
              n == registry[pid]
              res == count_resources_for_project(pid, GcpOutcomes(pid, n, e))
          IN /\ GcpNumErrs(e) <= budget.faults - faults
             /\ GcpHits(res) = GcpNumErrs(e)
             /\ faults' = faults + GcpHits(res)
             /\ log' = log \o res.log
             /\ probed' = probed \cup GcpUnits(pid, n, res)
             /\ aggregated' = IF res.raised THEN aggregated ELSE Append(aggregated, pid)
             /\ gfutures' = [gfutures EXCEPT ![i] =
                   [st |-> "done", exc |-> res.exc,
                    counts |-> IF res.raised THEN ZeroGcp ELSE res.vals]]
    /\ UNCHANGED <<prog, budget, registry, mode, pc, runs, files, startRows, startHdr,
                   startExists, logAtStart, upset, all_project_ids, walk, visits,
                   projects_to_process, project_results, project_id, project_counts>>
    /\ UNCHANGED <<awsVars, azVars, poolVars>>

\* `for result in executor.map(...)`: the next result, in dispatch order, is
\* appended; a task that raised raises here, and the exception leaves
\* run_for_organization once the executor has joined its threads.
GcpCollect ==
    /\ prog = "gcp" /\ pc = "gcp_fanout"
    /\ Len(project_results) < Len(projects_to_process)
    /\ LET i == Len(project_results) + 1 IN
       /\ gfutures[i].st = "done"
       /\ IF gfutures[i].exc # "none"
          THEN /\ \A j \in 1..Len(gfutures) : gfutures[j].st = "done"
               /\ GcpEnd("aborted")
          ELSE /\ project_results' =
                     Append(project_results,
                            [id |-> projects_to_process[i], counts |-> gfutures[i].counts])
               /\ UNCHANGED <<pc, probed, all_project_ids, walk, visits, projects_to_process,
                              gfutures, project_id, project_counts>>
    /\ UNCHANGED <<prog, budget, registry, mode, runs, files, log, faults, startRows, startHdr, startExists,
                   logAtStart, aggregated, upset>>
    /\ UNCHANGED <<awsVars, azVars, poolVars>>

\* open(csv_file_path, 'w'): the header row, then one row per result.
GcpOrgRows(res) == <<HeaderRow>> \o [i \in 1..Len(res) |-> GcpRow(res[i].id, res[i].counts)]

GcpWriteOrg ==
    /\ prog = "gcp" /\ pc = "gcp_fanout"
    /\ Len(project_results) = Len(projects_to_process)
    /\ files' = [files EXCEPT ![GcpOrgCsv] = OpenWrite(@, GcpOrgRows(project_results))]
    /\ startRows' = 0
    /\ pc' = "gcp_wrote"
    /\ UNCHANGED <<prog, budget, registry, mode, runs, log, faults, probed, startHdr, startExists, logAtStart, aggregated,
                   upset, gcpVars>>
    /\ UNCHANGED <<awsVars, azVars, poolVars>>

\* run_for_project: the probes run one after another in the main thread.
GcpRunForProject ==
    /\ prog = "gcp" /\ pc = "gcp_project"
    /\ \E e \in GcpErrChoices(budget.faults - faults) :
          LET pid == GcpCredentialsProject
              n == registry[pid]
              res == run_for_project_counts(pid, GcpOutcomes(pid, n, e))
          IN /\ GcpNumErrs(e) <= budget.faults - faults
             /\ GcpHits(res) = GcpNumErrs(e)
             /\ faults' = faults + GcpHits(res)
             /\ log' = log \o res.log
             /\ IF res.raised
                THEN GcpEnd("aborted") /\ UNCHANGED aggregated
                ELSE /\ project_id' = pid
                     /\ aggregated' = <<pid>>
                     /\ project_counts' = res.vals
                     /\ probed' = GcpUnits(pid, n, res)
                     /\ pc' = "gcp_write_project"
                     /\ UNCHANGED <<all_project_ids, walk, visits, projects_to_process,
                                    gfutures, project_results>>
    /\ UNCHANGED <<prog, budget, registry, mode, runs, files, startRows, startHdr,
                   startExists, logAtStart, upset>>
    /\ UNCHANGED <<awsVars, azVars, poolVars>>

\* open(csv_file_path, 'a'): the project's row.
GcpProjectRows(id, t) == <<GcpRow(id, t)>>

GcpWriteProject ==
    /\ prog = "gcp" /\ pc = "gcp_write_project"
    /\ files' = [files EXCEPT ![GcpProjectCsv] =
                    OpenAppend(@, GcpProjectRows(project_id, project_counts))]
    /\ pc' = "gcp_wrote"
    /\ UNCHANGED <<prog, budget, registry, mode, runs, log, faults, histVars, gcpVars>>
    /\ UNCHANGED <<awsVars, azVars, poolVars>>

\* run_for_organization / run_for_project returns.
GcpFinish ==
    /\ prog = "gcp" /\ pc = "gcp_wrote"
    /\ GcpEnd("done")
    /\ UNCHANGED <<prog, budget, registry, mode, runs, files, log, faults, startRows, startHdr, startExists,
                   logAtStart, aggregated, upset>>
    /\ UNCHANGED <<awsVars, azVars, poolVars>>

\* The process is killed (or the machine stops) in the middle of a run.
GcpKill ==
    /\ prog = "gcp" /\ pc \in GcpRunning
    /\ GcpEnd("killed")
    /\ UNCHANGED <<prog, budget, registry, mode, runs, files, log, faults, startRows, startHdr, startExists,
                   logAtStart, aggregated, upset>>
    /\ UNCHANGED <<awsVars, azVars, poolVars>>

GcpNext ==
    \/ \E m \in {"org", "project"} : GcpStart(m)
    \/ GcpListOrgProjects
    \/ GcpListOrgFolders
    \/ GcpWalkFolder
    \/ GcpDedup
    \/ \E i \in 1..NumScopes : GcpTask(i)
    \/ GcpCollect
    \/ GcpWriteOrg
    \/ GcpRunForProject
    \/ GcpWriteProject
    \/ GcpFinish
    \/ GcpKill

\* =================================================================== system
\* No run has been made: no report exists and every local is empty.
InitLocals ==
    /\ mode = "none"
    /\ pc = "idle"
    /\ runs = 0
    /\ files = [f \in CsvFiles |-> NoFile]
    /\ log = <<>>
    /\ faults = 0
    /\ probed = {}
    /\ startRows = 0
    /\ startHdr = 0
    /\ startExists = FALSE
    /\ aggregated = <<>>
    /\ logAtStart = 0
    /\ upset = FALSE
    /\ member_account_ids = <<>>
    /\ acct_i = 0
    /\ account_id = 0
    /\ active_regions = <<>>
    /\ futures = <<>>
    /\ totals = ZeroAws
    /\ results = <<>>
    /\ subscriptions = <<>>
    /\ sub_i = 0
    /\ subscription_id = 0
    /\ csv_exists = FALSE
    /\ csv_open = FALSE
    /\ buffer = <<>>
    /\ threads = <<>>
    /\ result_dict = <<>>
    /\ total_counts = ZeroAzure
    /\ all_project_ids = <<>>
    /\ walk = <<>>
    /\ visits = NoVisits
    /\ projects_to_process = <<>>
    /\ gfutures = <<>>
    /\ project_results = <<>>
    /\ project_id = 0
    /\ project_counts = ZeroGcp

NoPool == max_workers = 0 /\ work = 0 /\ started = 0 /\ finished = 0

Init ==
    /\ prog \in {"aws", "azure", "gcp"}
    /\ budget \in Budgets
    /\ registry \in GcpRegistries
    /\ InitLocals
    /\ NoPool

Next == AwsNext \/ AzureNext \/ GcpNext

Spec == Init /\ [][Next]_vars

\* The runs of gcp-resource-counter.py, where every call that
\* list_projects_recursive makes returns (with a response or with an
\* exception): a call of the walk that can be made is made.
WalkInit ==
    /\ prog = "gcp"
    /\ budget \in Budgets
    /\ registry \in GcpRegistries
    /\ InitLocals
    /\ NoPool

WalkSpec == WalkInit /\ [][GcpNext]_vars /\ WF_vars(GcpWalkFolder)

\* ============================================================ the worker pool
\* One fan-out, at the size of the pools: the work items are told apart by
\* their number alone.  AWS: the regions of one account, in a pool of 30.
\* Azure: the resource groups of one subscription, one thread each.  GCP:
\* the projects of the organization, in a pool of the default size.

\* ThreadPoolExecutor(max_workers=30)
AwsMaxWorkers == 30
\* ThreadPoolExecutor(): max_workers is min(32, os.cpu_count() + 4).
GcpMaxWorkers(cpus) == IF cpus + 4 < 32 THEN cpus + 4 ELSE 32

PoolInit ==
    /\ prog \in {"aws", "azure", "gcp"}
    /\ budget = [runs |-> 1, faults |-> 0]
    /\ registry = [p \in GcpProjects |-> 0]
    /\ InitLocals
    /\ max_workers \in IF prog = "aws" THEN {AwsMaxWorkers}
                        ELSE IF prog = "gcp" THEN {GcpMaxWorkers(c) : c \in 1..MaxCpus}
                        ELSE {0}
    /\ work = 0 /\ started = 0 /\ finished = 0

\* executor.map(...) submits every item (AWS, GCP); the loop of
\* process_subscription creates one thread per resource group (Azure).
PoolMap(n) ==
    /\ work = 0
    /\ work' = n
    /\ max_workers' = IF prog = "azure" THEN n ELSE max_workers
    /\ UNCHANGED <<started, finished, runVars>>

\* A worker thread takes the next item of the queue; the executor has at
\* most max_workers threads.  (Azure: thread.start().)
PoolRun ==
    /\ started < work
    /\ started - finished < max_workers
    /\ started' = started + 1
    /\ UNCHANGED <<max_workers, work, finished, runVars>>

\* An item's function returns.
PoolReturn ==
    /\ finished < started
    /\ finished' = finished + 1
    /\ UNCHANGED <<max_workers, work, started, runVars>>

PoolNext == (\E n \in 1..MaxUnits : PoolMap(n)) \/ PoolRun \/ PoolReturn

PoolSpec == PoolInit /\ [][PoolNext]_vars

(***************************************************************************)
(* Properties                                                              *)
(***************************************************************************)

\* A run has ended on its own (it was not killed).
RunEnded == runs > 0 /\ pc \in {"done", "exited", "aborted"}
\* The data rows the run has added to its report, and those a run of its
\* mode is to add.
RunRows == Len(DataRows(files[RunFile])) - startRows
ExpectedRows == IF mode \in {"org", "all"} THEN NumScopes ELSE 1

\* C1: a run over the whole hierarchy ends with exactly N data rows of its
\* own, N the number of leaf scopes, and a run over a single scope with
\* exactly one, whatever probes fail (no call outside the probes failing).
C1_RowsPerRun == (RunEnded /\ ~upset) => RunRows = ExpectedRows

\* C2: a failed provider call of a probe never leaves the probe as an
\* exception: the probe returns 0 for its unit, so its scope's aggregation
\* goes on.
C2_ProbeNeverRaises == \A u \in probed : u.failed => (~u.raised /\ u.val = 0)

\* The run's log has an error entry naming the scope and the kind.
Logged(scope, kind) ==
    \E i \in (logAtStart + 1)..Len(log) : log[i] = LogEntry("probe", scope, kind)
\* The scope a probe's log entry names: the resource group in Azure, the
\* unit's account or project elsewhere.
LogScope(u) == IF prog = "azure" THEN u.dim ELSE u.scope

\* C3: every failed probe call that was turned into a count of 0 has an
\* error entry in the log naming its scope and its resource kind.
C3_FailureLogged ==
    \A u \in probed : (u.failed /\ ~u.raised) => Logged(LogScope(u), u.kind)

\* The report on disk holds a row of this run for scope s.
Durable(s) ==
    \E i \in (startRows + 1)..Len(DataRows(files[RunFile])) :
        DataRows(files[RunFile])[i].id = s

\* C4: whenever a scope's aggregation has finished, the rows of all the
\* scopes aggregated before it are on disk: stopping the process at any
\* point loses the row of the scope in flight at most.
C4_FlushedPerScope == \A i \in 1..(Len(aggregated) - 1) : Durable(aggregated[i])

\* C5: a step never takes a report with exactly one header row to a report
\* with none or with several, whatever the number of runs.
C5_HeaderOnce ==
    [][\A f \in CsvFiles :
          HeaderCount(files[f]) = 1 => HeaderCount(files'[f]) = 1]_vars

\* A second or later run has appended its rows to a report that held the
\* header and rows already, and the report holds one header.
C5_Witness ==
    /\ runs >= 2 /\ pc = "done"
    /\ startExists /\ startHdr = 1 /\ startRows > 0
    /\ RunRows > 0
    /\ HeaderCount(files[RunFile]) = 1

\* C6: a report that did not exist when the run started and holds rows now
\* has exactly one header row, and it is the first row.
C6_HeaderOnCreate ==
    (runs > 0 /\ ~startExists /\ Len(files[RunFile].rows) > 0)
        => (files[RunFile].rows[1].hdr /\ HeaderCount(files[RunFile]) = 1)

NoDuplicates(s) == \A i, j \in 1..Len(s) : s[i] = s[j] => i = j
\* The number of data rows of report f for scope id.
RowsFor(f, id) ==
    Cardinality({i \in 1..Len(f.rows) : ~f.rows[i].hdr /\ f.rows[i].id = id})

\* C7: in the organization run of the GCP variant, the projects handed to
\* the pool are the collected ones without repetition, and the report holds
\* exactly one row for each collected project.
C7_Deduplicated ==
    (prog = "gcp" /\ mode = "org" /\ pc \in {"gcp_fanout", "gcp_wrote"}) =>
        /\ NoDuplicates(projects_to_process)
        /\ Range(projects_to_process) = Range(all_project_ids)
        /\ pc = "gcp_wrote" =>
              \A p \in Range(all_project_ids) : RowsFor(files[GcpOrgCsv], p) = 1

\* The walk collected a project twice and the report is written.
C7_Witness ==
    /\ prog = "gcp" /\ mode = "org" /\ pc = "gcp_wrote"
    /\ \E i, j \in 1..Len(all_project_ids) :
          /\ i # j
          /\ all_project_ids[i] = all_project_ids[j]
          /\ RowsFor(files[GcpOrgCsv], all_project_ids[i]) = 1

\* The probe units of kind k run for scope s: the sum of what they returned,
\* and the dimensions they ran in.
UnitsOf(s, k) == {u \in probed : u.scope = s /\ u.kind = k}
UnitSum(s, k) == SumSet(UnitsOf(s, k), [u \in UnitsOf(s, k) |-> u.val])
UnitDims(s, k) == {u.dim : u \in UnitsOf(s, k)}
NoUnitFailed == \A u \in probed : ~u.failed

C8_AwsRow ==
    (prog = "aws" /\ pc = "wrote") =>
        LET row == files[AwsCsv].rows[Len(files[AwsCsv].rows)] IN
        /\ ~row.hdr /\ row.id = account_id
        /\ \A i \in 1..Len(AwsKinds) :
              /\ UnitDims(account_id, AwsKinds[i]) = Range(active_regions)
              /\ row.counts[i] = UnitSum(account_id, AwsKinds[i])
        /\ active_regions = <<>> => \A i \in 1..Len(AwsKinds) : row.counts[i] = 0
        /\ (account_id = 1 /\ NoUnitFailed) => (row.counts[1] = 3 /\ row.counts[2] = 2)
C8_AzureRow ==
    (prog = "azure" /\ pc = "az_wrote") =>
        LET row == buffer[Len(buffer)] IN
        /\ ~row.hdr /\ row.id = subscription_id
        /\ \A i \in 1..Len(AzureKinds) :
              /\ UnitDims(subscription_id, AzureKinds[i]) = 1..Len(threads)
              /\ row.counts[i] = UnitSum(subscription_id, AzureKinds[i])

\* C8: each integer of a scope's row is the sum of what the probes of its
\* kind returned over all the regions the resolver returned (AWS) or all
\* the resource groups of the subscription (Azure); no region gives zeros,
\* and EC2 [3, 0] with Lambda [1, 1] gives EC2 = 3 and Lambda = 2.
C8_SumOverDimensions == C8_AwsRow /\ C8_AzureRow

\* The row of the account with regions r1, r2, EC2 [3, 0], Lambda [1, 1].
C8_Witness ==
    /\ prog = "aws" /\ pc = "wrote" /\ account_id = 1 /\ NoUnitFailed
    /\ Len(active_regions) = 2
    /\ files[AwsCsv].rows[Len(files[AwsCsv].rows)].counts[1] = 3
    /\ files[AwsCsv].rows[Len(files[AwsCsv].rows)].counts[2] = 2

PermuteSeq(s, p) == [i \in 1..Len(s) |-> s[p[i]]]

\* C9: the per-kind sums of a scope's row are the same for every order in
\* which the units' results could have been dispatched or completed: summing
\* any permutation of the results gives the totals the run computed.
C9_OrderIndependent ==
    /\ (prog = "aws" /\ pc \in {"write", "wrote"}) =>
          \A p \in Perms(1..Len(futures)) :
             AwsAggregate(ZeroAws,
                          PermuteSeq([i \in 1..Len(futures) |-> futures[i].counts], p))
               = totals
    /\ (prog = "azure" /\ pc = "az_wrote") =>
          \A p \in Perms(1..Len(result_dict)) :
             AzureSumCounts(ZeroAzure, PermuteSeq(result_dict, p)) = total_counts

\* Two resource groups with different counts were summed, and the second
\* thread finished first.
C9_Witness ==
    /\ prog = "azure" /\ pc = "az_wrote"
    /\ Len(result_dict) = 2
    /\ result_dict[1].rg = 2
    /\ result_dict[1].counts # result_dict[2].counts
    /\ buffer[Len(buffer)] = AzureRow(subscription_id, total_counts)

\* The kinds of scope s a probe call failed for, and the true totals.
FailedKinds(s) == {u.kind : u \in {v \in probed : v.scope = s /\ v.failed}}
AwsTrueTotal(a, k) ==
    SumSet(AwsRegionsOf(a), [r \in AwsRegionsOf(a) |-> AwsTrueCount(a, r, k)])
AzureTrueTotal(a, k) ==
    SumSet(AzureRgsOf(a), [g \in AzureRgsOf(a) |-> AzureTrueCount(a, g, k)])
GcpTrueTotal(a, k) ==
    IF k = "Artifact Registry Repositories" THEN registry[a]
    ELSE IF k = "Artifact Registry Images"
         THEN SumSet(1..registry[a], [r \in 1..registry[a] |-> GcpImagesIn(a, r)])
         ELSE GcpTrueCount(a, k)
GcpIsolated(a, counts) ==
    FailedKinds(a) # {} =>
        \A k \in GcpKindSet \ FailedKinds(a) : counts[k] = GcpTrueTotal(a, k)

\* C10: a failed probe unit changes its own kind's total alone: every kind
\* of the scope none of whose units failed has the total it has when nothing
\* fails.
C10_SiblingIsolation ==
    /\ (prog = "aws" /\ pc \in {"write", "wrote"}) =>
          \A k \in AwsKindSet \ FailedKinds(account_id) :
             totals[k] = AwsTrueTotal(account_id, k)
    /\ (prog = "azure" /\ pc = "az_wrote") =>
          \A k \in AzureKindSet \ FailedKinds(subscription_id) :
             total_counts[k] = AzureTrueTotal(subscription_id, k)
    /\ (prog = "gcp" /\ pc = "gcp_fanout") =>
          \A i \in 1..Len(gfutures) :
             gfutures[i].st = "done" =>
                GcpIsolated(projects_to_process[i], gfutures[i].counts)
    /\ (prog = "gcp" /\ pc = "gcp_write_project") =>
          GcpIsolated(project_id, project_counts)

\* The positions at which the scope tree is listed: account pages, a
\* subscription's resource groups, the projects and folders of the
\* organization and of a folder.
WalkSteps == {"list_accounts", "az_list_rgs", "gcp_list_org", "gcp_list_folders",
              "gcp_walk"}

\* C11: a listing call of the walk that fails is logged and does not abort
\* the run: the walk goes on with the sibling branches.
C11_BranchLocalFailure ==
    [][(pc \in WalkSteps /\ faults' > faults)
          => (pc' # "aborted" /\ Len(log') > Len(log))]_vars

\* The run has logged that the regions of account a could not be resolved,
\* or that no session could be created for it.
RegionsFailed(a) ==
    \E i \in (logAtStart + 1)..Len(log) : log[i] = LogEntry("regions", a, "")
SessionFailed(a) ==
    \E i \in (logAtStart + 1)..Len(log) : log[i] = LogEntry("session", a, "")

\* C12: an AWS account whose region resolution failed has no probe run for
\* it and no row written; the run goes on, so that a finished organization
\* run has a row for every account that did not fail this way; and a failed
\* call that did not end the run has left an error entry in the log.
C12_RegionFailureSkips ==
    prog = "aws" =>
        /\ \A a \in 1..NumScopes :
              RegionsFailed(a) =>
                 /\ ~Durable(a)
                 /\ \A i \in 1..Len(aggregated) : aggregated[i] # a
                 /\ \A i \in 1..Len(results) : results[i].id # a
                 /\ \A u \in probed : u.scope # a
        /\ (mode = "org" /\ pc = "done") =>
              \A a \in 1..NumScopes :
                 (~RegionsFailed(a) /\ ~SessionFailed(a)) => Durable(a)
        /\ (upset /\ runs > 0 /\ pc # "aborted") => Len(log) > logAtStart

\* The regions of the first account could not be resolved; the run went on
\* and wrote the second account's row alone.
C12_Witness ==
    /\ prog = "aws" /\ mode = "org" /\ pc = "done"
    /\ RegionsFailed(1) /\ ~Durable(1)
    /\ Durable(2)

\* The run could not be set up: the account of the credentials could not be
\* resolved (AWS), or the subscription asked for is none of the listed ones
\* (Azure).
SetupFailed ==
    \/ /\ prog = "aws"
       /\ \E i \in (logAtStart + 1)..Len(log) : log[i].what = "account_id"
    \/ prog = "azure" /\ mode = "notfound"
ReportUntouched ==
    /\ files[RunFile].exists = startExists
    /\ Len(files[RunFile].rows) = startRows + startHdr

\* C14: a run that could not be set up ends with a logged message and with
\* the report as it was when the run started (not created, not modified).
C14_SetupFatalNoReport ==
    (RunEnded /\ SetupFailed) => (ReportUntouched /\ Len(log) > logAtStart)

IsPrefix(s, t) == Len(s) <= Len(t) /\ SubSeq(t, 1, Len(s)) = s

\* C15: the data rows of a report are never modified, removed or rewritten:
\* every step leaves them as a prefix of the report's data rows.
C15_RowsAppendOnly ==
    [][\A f \in CsvFiles : IsPrefix(DataRows(files[f]), DataRows(files'[f]))]_vars

\* The repository listing made for project a returned an empty list.
GcpRepoListEmpty(a) ==
    \E u \in probed : /\ u.scope = a /\ u.kind = "Artifact Registry Repositories"
                      /\ ~u.raised /\ u.val = 0
GcpNoImages(counts) ==
    /\ counts["Artifact Registry Repositories"] = 0
    /\ counts["Artifact Registry Images"] = 0

\* C13: for a GCP project whose repository list is empty the image probe is
\* not invoked (no call of it is made, with any number of arguments), and
\* the project's summary has 0 repositories and 0 images, in both modes.
C13_EmptyRepositories ==
    prog = "gcp" =>
        \A a \in GcpProjects :
           GcpRepoListEmpty(a) =>
              /\ UnitsOf(a, "Artifact Registry Images") = {}
              /\ mode = "org" =>
                    \A i \in 1..Len(gfutures) :
                       (projects_to_process[i] = a /\ gfutures[i].st = "done") =>
                          (gfutures[i].exc = "none" /\ GcpNoImages(gfutures[i].counts))
              /\ (mode = "project" /\ pc \in {"gcp_write_project", "gcp_wrote"}) =>
                    (project_id = a /\ GcpNoImages(project_counts))

\* A single-project run whose project holds no repository has counted it.
C13_Witness ==
    /\ prog = "gcp" /\ mode = "project" /\ pc = "gcp_write_project"
    /\ registry[project_id] = 0
    /\ GcpRepoListEmpty(project_id)
    /\ GcpNoImages(project_counts)
    /\ NoUnitFailed

\* C16: the per-kind summation of a scope has run only when every unit
\* dispatched for the scope has terminated: whenever the totals have been
\* computed, no task of the pool (AWS) and no thread (Azure) is unfinished,
\* and every unit's result is among those summed.
C16_JoinBeforeReduce ==
    /\ (prog = "aws" /\ pc \in {"write", "wrote"}) =>
          /\ \A i \in 1..Len(futures) : futures[i].st = "done"
          /\ Len(futures) = Len(active_regions)
    /\ (prog = "azure" /\ pc = "az_wrote") =>
          /\ \A g \in 1..Len(threads) : threads[g] = "done"
          /\ Len(result_dict) = Len(threads)

\* The totals of an account with two regions have been summed.
C16_Witness ==
    /\ prog = "aws" /\ pc = "write"
    /\ Len(futures) = 2
    /\ futures[1].st = "done" /\ futures[2].st = "done"
    /\ totals = AwsAggregate(ZeroAws, <<futures[1].counts, futures[2].counts>>)

\* C17: the threads of a subscription write disjoint entries of result_dict:
\* no two entries have the same key, there is one entry for each thread that
\* has finished, and it holds what that thread's probes returned (no entry
\* was overwritten, no result lost).
C17_DisjointWrites ==
    (prog = "azure" /\ pc \in {"az_threads", "az_wrote"}) =>
        /\ \A i, j \in 1..Len(result_dict) :
              result_dict[i].rg = result_dict[j].rg => i = j
        /\ {result_dict[i].rg : i \in 1..Len(result_dict)}
              = {g \in 1..Len(threads) : threads[g] = "done"}
        /\ \A i \in 1..Len(result_dict) :
              \A u \in probed :
                 u.dim = result_dict[i].rg => result_dict[i].counts[u.kind] = u.val

\* Two threads have stored their results, the second one first.
C17_Witness ==
    /\ prog = "azure" /\ pc = "az_threads"
    /\ Len(result_dict) = 2
    /\ result_dict[1].rg = 2 /\ result_dict[2].rg = 1
    /\ threads = <<"done", "done">>

\* The units executing at this moment, and the leaf scopes they belong to:
\* the units of the GCP pool are projects, those of the AWS pool and the
\* Azure threads are the regions or resource groups of one scope.
UnitsRunning == started - finished
ScopesInAggregation ==
    IF prog = "gcp" THEN UnitsRunning ELSE IF UnitsRunning > 0 THEN 1 ELSE 0

\* C18: at any moment at most one leaf scope is being aggregated.
C18_OneScopeAtATime == ScopesInAggregation <= 1

\* C19: the units executing concurrently never exceed 30 in the AWS
\* per-region fan-out and 5 in the GCP project fan-out, whatever the number
\* of regions or projects.
C19_BoundedPool ==
    /\ prog = "aws" => UnitsRunning <= 30
    /\ prog = "gcp" => UnitsRunning <= 5

\* The folders below a parent, at every depth, and the projects attached to
\* the organization or to a folder below it.
RECURSIVE GcpFoldersBelow(_)
GcpFoldersBelow(parent) ==
    Range(GcpChildFolders(parent))
        \cup UNION {GcpFoldersBelow(c) : c \in Range(GcpChildFolders(parent))}
GcpTreeProjects ==
    {p \in GcpProjects : GcpParentsOf(p) \cap ({0} \cup GcpFoldersBelow(0)) # {}}

\* C20: when no listing call has failed, the projects the organization walk
\* has collected are exactly those attached to the organization or to a
\* folder below it at any depth.
C20_WalkComplete ==
    (prog = "gcp" /\ mode = "org" /\ pc \in {"gcp_fanout", "gcp_wrote"} /\ ~upset)
        => Range(all_project_ids) = GcpTreeProjects

\* The walk of the folders is over: no folder is left to visit, or the run
\* has left the walk.
WalkOver == pc # "gcp_walk" \/ walk = <<>>

\* C21: over the finite, acyclic hierarchy, where every listing call returns,
\* a walk that has begun comes to its end, and no folder is visited more often
\* than there are paths to it from the organization (one, in a tree).
C21_WalkTerminates ==
    /\ [](\A f \in GcpFolders : visits[f] <= 1)
    /\ (prog = "gcp" /\ pc = "gcp_walk" /\ walk # <<>>) ~> WalkOver

\* A walk has ended having visited folder 1 and the folder below it.
C21_Witness ==
    /\ prog = "gcp" /\ pc = "gcp_walk" /\ walk = <<>>
    /\ visits[1] = 1 /\ visits[3] = 1

\* What the provider answered to the calls made for project pid in this run,
\* read off the probe units: "none" where the call answered (or was not
\* made), HttpError where the probe caught the failure, and exc, the
\* exception that left the aggregator, where the probe let it through.
GcpAnswerOf(pid, k, dim, exc) ==
    IF \E u \in probed : u.scope = pid /\ u.kind = k /\ u.dim = dim /\ u.failed
    THEN IF \E u \in probed : u.scope = pid /\ u.kind = k /\ u.dim = dim /\ u.raised
         THEN exc ELSE "HttpError"
    ELSE "none"
GcpAnswered(pid, exc) ==
    [instances |-> GcpAnswerOf(pid, "Running Compute Instances", 0, exc),
     functions |-> GcpAnswerOf(pid, "Cloud Functions", 0, exc),
     gke       |-> GcpAnswerOf(pid, "GKE Clusters", 0, exc),
     repos     |-> GcpAnswerOf(pid, "Artifact Registry Repositories", 0, exc),
     images    |-> [r \in 1..MaxRepos |->
                       GcpAnswerOf(pid, "Artifact Registry Images", r, exc)]]

\* C22: what count_resources_for_project has given for a project in the
\* organization mode is what run_for_project computes for the same project
\* from the same answers of the provider: both return, with the same five
\* counts, or both raise.
C22_ModeEquivalence ==
    (prog = "gcp" /\ pc = "gcp_fanout") =>
        \A i \in 1..Len(gfutures) :
           gfutures[i].st = "done" =>
              LET pid == projects_to_process[i]
                  single == run_for_project_counts(
                               pid, GcpOutcomes(pid, registry[pid],
                                                GcpAnswered(pid, gfutures[i].exc)))
              IN /\ single.raised = (gfutures[i].exc # "none")
                 /\ ~single.raised => single.vals = gfutures[i].counts

\* The data rows for account a that this run has added to the report.
AwsRunRowsFor(a) ==
    Cardinality({i \in (startRows + 1)..Len(DataRows(files[AwsCsv])) :
                    DataRows(files[AwsCsv])[i].id = a})

\* C23: in the organization run of the AWS variant, results is empty while
\* an iteration of the member-account loop is on its way to the aggregation
\* (also after an account skipped for a session or region error) and holds
\* the one row of the account when the report is opened; so the run adds at
\* most one row for an account, and exactly one for each account whose
\* aggregation and write have finished.
C23_ResultsEmptyEachIteration ==
    (prog = "aws" /\ mode = "org" /\ runs > 0) =>
        /\ pc \in {"assume_role", "get_active_regions", "fanout"} => results = <<>>
        /\ pc = "write" => results = <<AwsRow(account_id, totals)>>
        /\ \A a \in 1..NumScopes : AwsRunRowsFor(a) <= 1
        /\ \A i \in 1..Len(aggregated) :
              (i < Len(aggregated) \/ pc \notin {"write", "killed"})
                 => AwsRunRowsFor(aggregated[i]) = 1

\* The second account's row has been written, the first account's before it.
C23_Witness ==
    /\ prog = "aws" /\ mode = "org" /\ pc = "wrote" /\ acct_i = 2
    /\ results = <<>>
    /\ AwsRunRowsFor(1) = 1 /\ AwsRunRowsFor(2) = 1

====
